---- MODULE Spec2Model ----
(***************************************************************************)
(* Model of pantos/validatornode/blockchains/ethereum.py: EthereumClient.  *)
(*                                                                         *)
(* Two independent parts of the client are modelled.  They share no state  *)
(* (the read operations never touch the nonce store), so a behaviour is    *)
(* either a run of transferTo submissions or a run of read operations; the *)
(* variable activity, fixed by Init, says which.                           *)
(*                                                                         *)
(*  - start_transfer_to_submission, one step per interaction with the      *)
(*    outside (node connections, signer, hub contract, nonce store,        *)
(*    transaction submission); call[w] holds the locals of worker w's call *)
(*  - read_outgoing_transfers_from_block, one step per fetched chunk, and  *)
(*    the other node-querying operations as one step each.                 *)
(*                                                                         *)
(* Environment: every node of the node connections reports a transaction   *)
(* count of the validator's account that never decreases; a submission can *)
(* be rejected as "nonce too low" only when some node already counts more  *)
(* transactions than the submitted nonce.                                  *)
(***************************************************************************)
EXTENDS Integers, Sequences, FiniteSets, TLC

\* ------------------------------------------------------------------ bounds
MaxTxCount == 2
MaxBlock == 4
MaxNumberBlocks == 3

Nodes == {"node_a", "node_b"}
Transfers == {"t1", "t2"}
Workers == {"w1", "w2"}

\* -------------------------------------------------------------- constants
\* "nonce is None" of the nonce store
None == -1

\* the largest fee per gas a configuration names, and the most resubmissions
\* of one transaction that are followed
MaxFeePerGas == 5
MaxResubmissions == 3

\* the number of hex digits _TRANSACTION_ID_PATTERN asks for
HexDigits == 64

ETHEREUM == "ETHEREUM"
Blockchains == {"ETHEREUM", "BNB_CHAIN"}

\* Exception classes
ResultsNotMatchingError == "ResultsNotMatchingError"
TransactionNonceTooLowError == "TransactionNonceTooLowError"
TransactionUnderpricedError == "TransactionUnderpricedError"
ContractLogicError == "ContractLogicError"
AssertionError == "AssertionError"
OtherException == "Exception"
NonMatchingForwarderError == "NonMatchingForwarderError"
SourceTransferIdAlreadyUsedError == "SourceTransferIdAlreadyUsedError"
EthereumClientError == "EthereumClientError"
NoException == "none"

\* Substrings a ContractLogicError's text may contain
_NON_MATCHING_FORWARDER_ERROR ==
    "PantosHub: Forwarder of Hub and transferred token must match"
_SOURCE_TRANSFER_ID_ALREADY_USED_ERROR ==
    "PantosHub: source transfer ID already used"
ErrorTexts == SUBSET {_NON_MATCHING_FORWARDER_ERROR,
                      _SOURCE_TRANSFER_ID_ALREADY_USED_ERROR}

\* Results delivered to the caller of start_transfer_to_submission
Submitted == "TransferToSubmissionStartResponse"
UnableToStartError ==
    "EthereumClientError: unable to start a transferTo submission"
DestinationBlockchainError ==
    "EthereumClientError: eventual destination blockchain of incoming transfer must be Ethereum"
NoResult == "none"

\* Results of the read operations
FromBlockResponse == "ReadOutgoingTransfersFromBlockResponse"
Returned == "returned"

\* The node-querying operations modelled as one step, with the message of
\* the error each raises
QueryMessage ==
    [is_token_active |-> "unable to determine if a token is active",
     is_valid_validator_nonce |->
         "unable to determine if a validator node nonce is valid",
     read_external_token_address |->
         "unable to read an external token address",
     read_token_decimals |-> "unable to read the decimals of a token",
     read_validator_node_addresses |->
         "unable to read the validator node addresses"]
Queries == DOMAIN QueryMessage
FromBlockMessage == "unable to read outgoing transfers from a starting block"
InTransactionMessage == "unable to read outgoing transfers in a transaction"

\* The node endpoints that answer a request for a receipt, and the error of
\* a request no endpoint answered
Endpoints == {"endpoint_1", "endpoint_2", "endpoint_3"}
NodeConnectionError == "NodeConnectionError"

VARIABLES
    activity,         \* "submission" or "reading", fixed
    \* ---- submission
    node_tx_count,    \* node -> transaction count of the account it reports
    transfer_nonce,   \* internal transfer id -> stored nonce or None
    call,             \* worker -> the start_transfer_to_submission call:
                      \*   pc, request, transaction_count, nonce,
                      \*   verify_raised (what verifyTransferTo raised),
                      \*   raised (exception inside the try block),
                      \*   result (what the caller receives),
                      \*   log (interactions of the call so far, in order)
    rejected_low,     \* transfer id -> nonce of the previous call if it was
                      \* rejected with nonce too low, else None
    submitted_nonces, \* transfer id -> nonces submitted since the last reset
    \* ---- reading
    number_blocks,    \* configuration: outgoing_transfers_number_blocks
    own_destination_block, \* the block whose first TransferFrom event names
                      \* the client's own blockchain as destination, or None
    read,             \* the read_outgoing_transfers_from_block call:
                      \*   pc, argument (from_block_number as passed),
                      \*   from_block_number (the local), block_numbers (per
                      \*   node), latest_block_number, to_block_numbers (not
                      \*   yet fetched), fetched (ranges fetched), event_logs,
                      \*   raised, result
    last_query,       \* the last one-step query: operation, raised, result
    \* ---- operations of one step
    validation,       \* the is_valid_transaction_id call: pc, transaction_id
                      \* (a sequence of characters), valid
    transaction_read, \* the read_outgoing_transfers_in_transaction call: pc,
                      \* transaction_id, hub_address, responses, reduced,
                      \* event_logs, raised, result
    submission,       \* a transaction handed to start_transaction_submission:
                      \* pc, config, request, fee_per_gas, previous_fee_per_gas,
                      \* blocks, resubmissions
    attestation       \* a transferTo signature and its recovery: pc,
                      \* incoming_transfer, validator_nonce, message, signature,
                      \* request, recovered_message, raised, result

submissionVars == <<node_tx_count, transfer_nonce, call, rejected_low,
                    submitted_nonces>>
readingVars == <<number_blocks, own_destination_block, read, last_query>>
operationVars == <<validation, transaction_read, attestation, submission>>
vars == <<activity, submissionVars, readingVars, operationVars>>

\* the verifyTransferTo call has not been made
NotVerified == [exc |-> "none", texts |-> {}]

\* no call in progress
NoRequest == [internal_transfer_id |-> "none",
              eventual_destination_blockchain |-> "none"]
NoCall == [pc |-> "idle", request |-> NoRequest, transaction_count |-> None,
           nonce |-> None, verify_raised |-> NotVerified,
           raised |-> NoException, result |-> NoResult, log |-> <<>>]

NoReadResult == [kind |-> NoResult, outgoing_transfers |-> <<>>,
                 latest_block_number |-> None, from_block_number |-> None]
NoRead == [pc |-> "idle", argument |-> None, from_block_number |-> None,
           block_numbers |-> [n \in Nodes |-> 0], latest_block_number |-> None,
           to_block_numbers |-> <<>>, fetched |-> <<>>, event_logs |-> <<>>,
           raised |-> NoException, result |-> NoReadResult]
NoSubmission ==
    [pc |-> "idle",
     config |-> [min_adaptable_fee_per_gas |-> None,
                 max_total_fee_per_gas |-> None,
                 adaptable_fee_increase_factor |-> None,
                 blocks_until_resubmission |-> None],
     request |-> [min_adaptable_fee_per_gas |-> None,
                  max_total_fee_per_gas |-> None,
                  adaptable_fee_increase_factor |-> None,
                  blocks_until_resubmission |-> None],
     fee_per_gas |-> None, previous_fee_per_gas |-> None, blocks |-> 0,
     resubmissions |-> 0]
NoTransactionRead ==
    [pc |-> "idle", transaction_id |-> <<>>, hub_address |-> <<>>,
     responses |-> <<>>, reduced |-> <<>>, event_logs |-> <<>>,
     raised |-> NoException,
     result |-> [kind |-> NoResult, outgoing_transfers |-> <<>>,
                 transaction_id |-> <<>>, hub_address |-> <<>>]]
NoAttestation ==
    [pc |-> "idle", incoming_transfer |-> None, validator_nonce |-> None,
     message |-> None, signature |-> None, request |-> None,
     recovered_message |-> None, raised |-> NoException, result |-> NoResult]
NoValidation == [pc |-> "idle", transaction_id |-> <<>>, valid |-> FALSE]
NoQuery == [operation |-> "none", raised |-> NoException, result |-> NoResult]

\* ------------------------------------------------------------- helpers
RECURSIVE SetMax(_)
SetMax(S) ==
    LET x == CHOOSE y \in S : TRUE
    IN  IF S = {x} THEN x
        ELSE LET m == SetMax(S \ {x}) IN IF x > m THEN x ELSE m

RECURSIVE SetMin(_)
SetMin(S) ==
    LET x == CHOOSE y \in S : TRUE
    IN  IF S = {x} THEN x
        ELSE LET m == SetMin(S \ {x}) IN IF x < m THEN x ELSE m

\* NodeConnections.Wrapper.get_maximum_result / get_minimum_result over the
\* per-node results
GetMaximumResult(results) == SetMax({results[n] : n \in DOMAIN results})
GetMinimumResult(results) == SetMin({results[n] : n \in DOMAIN results})

\* Python's range(start, stop, step) for step >= 1, as a sequence
RECURSIVE Range(_, _, _)
Range(start, stop, step) ==
    IF start >= stop THEN <<>>
    ELSE <<start>> \o Range(start + step, stop, step)

\* ----------------------------------------------------- the nonce store
\* database_access.update_transfer_nonce: persists the count as the nonce of
\* the transfer if none is stored for it, else leaves the stored one
UpdateTransferNonce(store, id, count) ==
    IF store[id] = None THEN [store EXCEPT ![id] = count] ELSE store

\* database_access.read_transfer_nonce
ReadTransferNonce(store, id) == store[id]

\* database_access.reset_transfer_nonce
ResetTransferNonce(store, id) == [store EXCEPT ![id] = None]

\* ------------------------------------------------- exception handling
\* The typed errors are built by _create_error from the client's error class
IsEthereumClientError(exc) ==
    exc \in {EthereumClientError, NonMatchingForwarderError,
             SourceTransferIdAlreadyUsedError}

\* except clauses of start_transfer_to_submission
HandleStartReraisesAll(exc) == exc
HandleStartError(exc) ==
    IF exc = ResultsNotMatchingError THEN exc
    ELSE IF IsEthereumClientError(exc) THEN exc
    ELSE UnableToStartError

\* the check at the top of start_transfer_to_submission
DestinationAlwaysAccepted(blockchain) == TRUE
IsOwnDestination(blockchain) == blockchain = ETHEREUM

\* except clause of __verify_transfer_to_request: the exception that leaves it
\* for a ContractLogicError whose text contains the given messages
VerifyErrorUsedFirst(texts) ==
    IF _SOURCE_TRANSFER_ID_ALREADY_USED_ERROR \in texts
    THEN SourceTransferIdAlreadyUsedError
    ELSE IF _NON_MATCHING_FORWARDER_ERROR \in texts
    THEN NonMatchingForwarderError
    ELSE ContractLogicError
VerifyError(texts) ==
    IF _NON_MATCHING_FORWARDER_ERROR \in texts
    THEN NonMatchingForwarderError
    ELSE IF _SOURCE_TRANSFER_ID_ALREADY_USED_ERROR \in texts
    THEN SourceTransferIdAlreadyUsedError
    ELSE ContractLogicError

\* where the call goes after __verify_transfer_to_request raised or returned
AfterVerifyAlwaysSubmits(exc) == "get_count"
AfterVerify(exc) == IF exc = NoException THEN "get_count" ELSE "done"

\* the value __get_nonce returns
GetNonceReturnsCount(count, stored) == count
GetNonceResult(count, stored) == stored

\* except clause of __submit_transfer_to_request
ResetsOnAnyError(exc) == exc # NoException
ResetsOnUnderpricedOnly(exc) == exc = TransactionUnderpricedError
ResetsOnNonceTooLowOnly(exc) == exc = TransactionNonceTooLowError
ResetsNonce(exc) ==
    exc \in {TransactionNonceTooLowError, TransactionUnderpricedError}

\* ------------------------------------------------------------------ Init
InitSubmission ==
    /\ node_tx_count = [n \in Nodes |-> 0]
    /\ transfer_nonce = [t \in Transfers |-> None]
    /\ call = [w \in Workers |-> NoCall]
    /\ rejected_low = [t \in Transfers |-> None]
    /\ submitted_nonces = [t \in Transfers |-> {}]

InitReading ==
    /\ read = NoRead
    /\ last_query = NoQuery

InitOperations ==
    /\ validation = NoValidation
    /\ attestation = NoAttestation
    /\ transaction_read = NoTransactionRead
    /\ submission = NoSubmission

Init ==
    /\ activity \in {"submission", "reading", "validating", "attesting",
                      "reading_transaction", "resubmitting"}
    /\ InitSubmission
    /\ InitReading
    /\ InitOperations
    /\ IF activity = "reading"
       THEN /\ number_blocks \in 1..MaxNumberBlocks
            /\ own_destination_block \in
                   {None} \cup {b \in 0..MaxBlock : b % 3 # 0}
       ELSE /\ number_blocks = 1
            /\ own_destination_block = None

\* --------------------------------------------- start_transfer_to_submission
\* the call of worker w after exc was raised inside the try block
Failed(c, exc) ==
    [c EXCEPT !.raised = exc, !.result = HandleStartError(exc), !.pc = "done"]

Logged(c, what) == [c EXCEPT !.log = Append(@, what)]

\* The caller invokes the operation; the operation checks the destination
\* before the try block.  Calls do not overlap.
StartTransferToSubmission(w, id, destination) ==
    /\ activity = "submission"
    /\ \A v \in Workers : call[v].pc = "idle"
    /\ LET c == [call[w] EXCEPT !.request =
                    [internal_transfer_id |-> id,
                     eventual_destination_blockchain |-> destination]]
       IN  call' = [call EXCEPT ![w] =
                IF IsOwnDestination(destination)
                THEN [c EXCEPT !.pc = "connect"]
                ELSE [c EXCEPT !.pc = "done",
                               !.result = DestinationBlockchainError]]
    /\ UNCHANGED <<activity, operationVars, node_tx_count, transfer_nonce, rejected_low,
                   submitted_nonces, readingVars>>

\* __create_node_connections and _create_hub_contract
CreateNodeConnections(w, exc) ==
    /\ call[w].pc = "connect"
    /\ LET c == Logged(call[w], "connect")
       IN  call' = [call EXCEPT ![w] =
                IF exc = NoException THEN [c EXCEPT !.pc = "sign"]
                ELSE Failed(c, exc)]
    /\ UNCHANGED <<activity, operationVars, node_tx_count, transfer_nonce, rejected_low,
                   submitted_nonces, readingVars>>

\* __create_transfer_to_signature
CreateTransferToSignature(w, exc) ==
    /\ call[w].pc = "sign"
    /\ LET c == Logged(call[w], "sign")
       IN  call' = [call EXCEPT ![w] =
                IF exc = NoException THEN [c EXCEPT !.pc = "verify"]
                ELSE Failed(c, exc)]
    /\ UNCHANGED <<activity, operationVars, node_tx_count, transfer_nonce, rejected_low,
                   submitted_nonces, readingVars>>

\* __verify_transfer_to_request: exc is what the verifyTransferTo call raises,
\* texts the messages a ContractLogicError carries
VerifyTransferToRequest(w, exc, texts) ==
    /\ call[w].pc = "verify"
    /\ exc # ContractLogicError => texts = {}
    /\ LET left == IF exc = ContractLogicError THEN VerifyError(texts) ELSE exc
           c == [Logged(call[w], IF exc = NoException THEN "verify_ok"
                                 ELSE "verify_rejected")
                    EXCEPT !.verify_raised = [exc |-> exc, texts |-> texts],
                           !.raised = left]
       IN  call' = [call EXCEPT ![w] =
                IF AfterVerify(left) = "done"
                THEN [c EXCEPT !.pc = "done",
                               !.result = HandleStartError(left)]
                ELSE [c EXCEPT !.pc = AfterVerify(left)]]
    /\ UNCHANGED <<activity, operationVars, node_tx_count, transfer_nonce, rejected_low,
                   submitted_nonces, readingVars>>

\* __get_nonce: the reduction of the nodes' counts to transaction_count
TransactionCountMinimum(counts) == GetMinimumResult(counts)
TransactionCount(counts) == GetMaximumResult(counts)

\* __get_nonce: get_transaction_count(...).get_maximum_result()
GetTransactionCount(w, exc) ==
    /\ call[w].pc = "get_count"
    /\ LET c == Logged(call[w], "count")
       IN  call' = [call EXCEPT ![w] =
                IF exc = NoException
                THEN [c EXCEPT !.transaction_count =
                                   TransactionCount(node_tx_count),
                               !.pc = "update_nonce"]
                ELSE Failed(c, exc)]
    /\ UNCHANGED <<activity, operationVars, node_tx_count, transfer_nonce, rejected_low,
                   submitted_nonces, readingVars>>

\* __get_nonce: database_access.update_transfer_nonce
UpdateNonce(w) ==
    /\ call[w].pc = "update_nonce"
    /\ transfer_nonce' = UpdateTransferNonce(
           transfer_nonce, call[w].request.internal_transfer_id,
           call[w].transaction_count)
    /\ call' = [call EXCEPT ![w] =
                  [Logged(@, "update") EXCEPT !.pc = "read_nonce"]]
    /\ UNCHANGED <<activity, operationVars, node_tx_count, rejected_low, submitted_nonces,
                   readingVars>>

\* __get_nonce: database_access.read_transfer_nonce and the assertion
ReadNonce(w) ==
    /\ call[w].pc = "read_nonce"
    /\ LET stored == ReadTransferNonce(transfer_nonce,
                                       call[w].request.internal_transfer_id)
           c == Logged(call[w], "read")
       IN  call' = [call EXCEPT ![w] =
                IF stored # None
                THEN [c EXCEPT !.nonce =
                                   GetNonceResult(c.transaction_count, stored),
                               !.pc = "submit"]
                ELSE Failed(c, AssertionError)]
    /\ UNCHANGED <<activity, operationVars, node_tx_count, transfer_nonce, rejected_low,
                   submitted_nonces, readingVars>>

\* __submit_transfer_to_request: start_transaction_submission.  A node takes
\* the transaction if the nonce is not below the count it has for the account
\* and rejects it as nonce too low if it is.
StartTransactionSubmission(w, exc) ==
    /\ call[w].pc = "submit"
    /\ exc = NoException =>
           \E n \in Nodes : call[w].nonce >= node_tx_count[n]
    /\ exc = TransactionNonceTooLowError =>
           \E n \in Nodes : call[w].nonce < node_tx_count[n]
    /\ LET id == call[w].request.internal_transfer_id
           c == Logged(call[w], "submit")
       IN  /\ submitted_nonces' = [submitted_nonces EXCEPT ![id] =
                                     @ \cup {call[w].nonce}]
           /\ call' = [call EXCEPT ![w] =
                IF exc = NoException
                THEN [c EXCEPT !.result = Submitted, !.pc = "done"]
                ELSE IF ResetsNonce(exc)
                THEN [c EXCEPT !.raised = exc, !.pc = "reset_nonce"]
                ELSE Failed(c, exc)]
    /\ UNCHANGED <<activity, operationVars, node_tx_count, transfer_nonce, rejected_low,
                   readingVars>>

\* __submit_transfer_to_request: reset_transfer_nonce, then the exception is
\* raised again and reaches the except clauses of start_transfer_to_submission
ResetNonce(w) ==
    /\ call[w].pc = "reset_nonce"
    /\ LET id == call[w].request.internal_transfer_id
       IN  /\ transfer_nonce' = ResetTransferNonce(transfer_nonce, id)
           /\ submitted_nonces' = [submitted_nonces EXCEPT ![id] = {}]
    /\ call' = [call EXCEPT ![w] =
                  Failed(Logged(@, "reset"), call[w].raised)]
    /\ UNCHANGED <<activity, operationVars, node_tx_count, rejected_low, readingVars>>

\* The caller has the result; the worker is free for the next call
Return(w) ==
    /\ call[w].pc = "done"
    /\ rejected_low' =
           [rejected_low EXCEPT ![call[w].request.internal_transfer_id] =
               IF call[w].raised = TransactionNonceTooLowError
               THEN call[w].nonce ELSE None]
    /\ call' = [call EXCEPT ![w] = NoCall]
    /\ UNCHANGED <<activity, operationVars, node_tx_count, transfer_nonce, submitted_nonces,
                   readingVars>>

\* A node sees one more transaction of the validator's account
NodeCountsTransaction(n) ==
    /\ activity = "submission"
    /\ node_tx_count[n] < MaxTxCount
    /\ node_tx_count' = [node_tx_count EXCEPT ![n] = @ + 1]
    /\ UNCHANGED <<activity, operationVars, transfer_nonce, call, rejected_low,
                   submitted_nonces, readingVars>>

NodeFailures == {NoException, ResultsNotMatchingError, OtherException}

SubmissionNext ==
    \/ \E w \in Workers, id \in Transfers, d \in Blockchains :
           StartTransferToSubmission(w, id, d)
    \/ \E w \in Workers, exc \in {NoException, OtherException} :
           CreateNodeConnections(w, exc)
    \/ \E w \in Workers, exc \in {NoException, OtherException} :
           CreateTransferToSignature(w, exc)
    \/ \E w \in Workers, exc \in NodeFailures \cup {ContractLogicError},
          texts \in ErrorTexts :
           VerifyTransferToRequest(w, exc, texts)
    \/ \E w \in Workers, exc \in NodeFailures : GetTransactionCount(w, exc)
    \/ \E w \in Workers : UpdateNonce(w)
    \/ \E w \in Workers : ReadNonce(w)
    \/ \E w \in Workers,
          exc \in NodeFailures \cup {TransactionNonceTooLowError,
                                     TransactionUnderpricedError} :
           StartTransactionSubmission(w, exc)
    \/ \E w \in Workers : ResetNonce(w)
    \/ \E w \in Workers : Return(w)
    \/ \E n \in Nodes : NodeCountsTransaction(n)

\* --------------------------------------- read_outgoing_transfers_from_block
\* The TransferFrom events of the hub in block b, in log order
TransferFromEvents(b, own_block) ==
    [i \in 1..(b % 3) |->
        [event |-> "TransferFrom", block_number |-> b, log_index |-> i,
         destination_blockchain |->
             IF b = own_block /\ i = 1 THEN ETHEREUM ELSE "BNB_CHAIN"]]

\* get_utilities().get_logs(event, from_block_number, to_block_number): the
\* events of the blocks of the range, in block order
RECURSIVE GetLogs(_, _, _)
GetLogs(from, to, own_block) ==
    IF from > to THEN <<>>
    ELSE TransferFromEvents(from, own_block) \o GetLogs(from + 1, to, own_block)

\* the reduction of the nodes' block numbers to latest_block_number
LatestBlockNumberMaximum(block_numbers) == GetMaximumResult(block_numbers)
LatestBlockNumber(block_numbers) == GetMinimumResult(block_numbers)

\* the test that nothing is to be read
StartsAtOrBeyondLatest(from, latest) == from >= latest
StartsBeyondLatest(from, latest) == from > latest

\* to_block_numbers
ToBlockNumbersWithoutLatest(from, latest, blocks) ==
    Range(from + blocks, latest, blocks)
ToBlockNumbers(from, latest, blocks) ==
    Range(from + blocks, latest, blocks) \o <<latest>>

\* from_block_number after a chunk was fetched
NextFromBlockNumberSame(to) == to
NextFromBlockNumber(to) == to + 1

\* __create_outgoing_transfers: the assertion on the destination blockchain
OwnDestinationFirstOnly(event_logs) ==
    event_logs # <<>> /\ event_logs[1].destination_blockchain = ETHEREUM
OwnDestination(event_logs) ==
    \E i \in DOMAIN event_logs :
        event_logs[i].destination_blockchain = ETHEREUM

\* __create_outgoing_transfers: the transfers of the events
CreateOutgoingTransfers(event_logs) ==
    [i \in DOMAIN event_logs |->
        [source_blockchain |-> ETHEREUM,
         destination_blockchain |-> event_logs[i].destination_blockchain,
         block_number |-> event_logs[i].block_number,
         log_index |-> event_logs[i].log_index]]

\* except clauses of the read operations
HandleQueryWrapsAll(exc, message) == message
HandleQueryError(exc, message) ==
    IF exc = ResultsNotMatchingError THEN exc ELSE message

\* read_outgoing_transfers_from_block left by exc
ReadFailed(r, exc) ==
    [r EXCEPT !.raised = exc, !.pc = "done",
              !.result = [kind |-> HandleQueryError(exc, FromBlockMessage),
                          outgoing_transfers |-> <<>>,
                          latest_block_number |-> None,
                          from_block_number |-> r.from_block_number]]

\* the operation up to the chunk loop; block_numbers are the answers of the
\* nodes to get_block_number
ReadOutgoingTransfersFromBlock(argument, block_numbers, exc) ==
    /\ activity = "reading"
    /\ read.pc = "idle"
    /\ last_query = NoQuery
    /\ LET latest == LatestBlockNumber(block_numbers)
           r == [read EXCEPT !.argument = argument,
                             !.from_block_number = argument]
       IN  read' =
             IF exc # NoException THEN ReadFailed(r, exc)
             ELSE IF StartsBeyondLatest(argument, latest)
             THEN [r EXCEPT !.block_numbers = block_numbers,
                            !.latest_block_number = latest,
                            !.pc = "done",
                            !.result = [kind |-> FromBlockResponse,
                                        outgoing_transfers |-> <<>>,
                                        latest_block_number |-> latest,
                                        from_block_number |-> None]]
             ELSE [r EXCEPT !.block_numbers = block_numbers,
                            !.latest_block_number = latest,
                            !.to_block_numbers =
                                ToBlockNumbers(argument, latest, number_blocks),
                            !.pc = "get_logs"]
    /\ UNCHANGED <<activity, operationVars, submissionVars, number_blocks,
                   own_destination_block, last_query>>

\* one iteration of the chunk loop
GetLogsChunk(exc) ==
    /\ read.pc = "get_logs"
    /\ read.to_block_numbers # <<>>
    /\ LET to_block_number == Head(read.to_block_numbers)
           from == read.from_block_number
       IN  read' =
             IF to_block_number < from THEN ReadFailed(read, AssertionError)
             ELSE IF exc # NoException THEN ReadFailed(read, exc)
             ELSE [read EXCEPT
                     !.event_logs = @ \o GetLogs(from, to_block_number,
                                                 own_destination_block),
                     !.fetched = Append(@, <<from, to_block_number>>),
                     !.from_block_number = NextFromBlockNumber(to_block_number),
                     !.to_block_numbers = Tail(@)]
    /\ UNCHANGED <<activity, operationVars, submissionVars, number_blocks,
                   own_destination_block, last_query>>

\* after the loop: __create_outgoing_transfers and the response
ReturnOutgoingTransfers ==
    /\ read.pc = "get_logs"
    /\ read.to_block_numbers = <<>>
    /\ read' =
         IF OwnDestination(read.event_logs)
         THEN ReadFailed(read, AssertionError)
         ELSE [read EXCEPT
                 !.pc = "done",
                 !.result = [kind |-> FromBlockResponse,
                             outgoing_transfers |->
                                 CreateOutgoingTransfers(read.event_logs),
                             latest_block_number |-> read.latest_block_number,
                             from_block_number |-> None]]
    /\ UNCHANGED <<activity, operationVars, submissionVars, number_blocks,
                   own_destination_block, last_query>>

\* The caller has the response or the error
ReadReturn ==
    /\ read.pc = "done"
    /\ read' = NoRead
    /\ UNCHANGED <<activity, operationVars, submissionVars, number_blocks,
                   own_destination_block, last_query>>

\* is_token_active, is_valid_validator_nonce, read_external_token_address,
\* read_token_decimals and read_validator_node_addresses: the node reads raise exc or return
QueryNodes(operation, exc) ==
    /\ activity = "reading"
    /\ read.pc = "idle"
    /\ last_query = NoQuery
    /\ last_query' =
         [operation |-> operation, raised |-> exc,
          result |-> IF exc = NoException THEN Returned
                     ELSE HandleQueryError(exc, QueryMessage[operation])]
    /\ UNCHANGED <<activity, operationVars, submissionVars, number_blocks,
                   own_destination_block, read>>

\* The caller has the result or the error of the query
QueryReturn ==
    /\ last_query # NoQuery
    /\ last_query' = NoQuery
    /\ UNCHANGED <<activity, operationVars, submissionVars, number_blocks,
                   own_destination_block, read>>

ReadingNext ==
    \/ \E argument \in 0..(MaxBlock + 1),
          block_numbers \in [Nodes -> 0..MaxBlock], exc \in NodeFailures :
           ReadOutgoingTransfersFromBlock(argument, block_numbers, exc)
    \/ \E exc \in NodeFailures : GetLogsChunk(exc)
    \/ ReturnOutgoingTransfers
    \/ ReadReturn
    \/ \E operation \in Queries,
          exc \in NodeFailures \cup {AssertionError} :
           QueryNodes(operation, exc)
    \/ QueryReturn

\* --------------------------------------------------- is_valid_transaction_id
\* [a-fA-F0-9]
HexDigit(c) ==
    c \in {"0", "1", "2", "3", "4", "5", "6", "7", "8", "9",
           "a", "b", "c", "d", "e", "f", "A", "B", "C", "D", "E", "F"}

\* _TRANSACTION_ID_PATTERN matched at the start of the string: the position
\* where the match ends, or None without a match
_TRANSACTION_ID_PATTERN(string) ==
    IF /\ Len(string) >= 2 + HexDigits
       /\ string[1] = "0"
       /\ string[2] = "x"
       /\ \A i \in 3..(2 + HexDigits) : HexDigit(string[i])
    THEN 2 + HexDigits
    ELSE None

\* re.fullmatch(_TRANSACTION_ID_PATTERN, transaction_id) is not None
IsValidTransactionIdPrefix(transaction_id) ==
    _TRANSACTION_ID_PATTERN(transaction_id) # None
IsValidTransactionId(transaction_id) ==
    _TRANSACTION_ID_PATTERN(transaction_id) = Len(transaction_id)

\* Strings to validate: a prefix, a run of one character around the length
\* the pattern asks for, with or without characters that are no hex digits,
\* and a suffix
Repeated(c, n) == [i \in 1..n |-> c]
SpoiledFirstTwo(body) ==
    [i \in DOMAIN body |-> IF i <= 2 THEN "z" ELSE body[i]]
SpoiledLast(body) ==
    [i \in DOMAIN body |-> IF i = Len(body) THEN "z" ELSE body[i]]
TransactionIdStrings ==
    {prefix \o body \o suffix :
        prefix \in {<<"0", "x">>, <<"0", "X">>, <<"x", "0">>, <<>>},
        body \in UNION {
            {Repeated(c, n), SpoiledFirstTwo(Repeated(c, n)),
             SpoiledLast(Repeated(c, n))} :
                c \in {"a", "F", "0", "9"},
                n \in (HexDigits - 1)..(HexDigits + 1)},
        suffix \in {<<>>, <<"z">>, <<"\n">>, <<"a">>}}

CheckTransactionId(transaction_id) ==
    /\ activity = "validating"
    /\ validation.pc = "idle"
    /\ validation' = [pc |-> "done", transaction_id |-> transaction_id,
                      valid |-> IsValidTransactionId(transaction_id)]
    /\ UNCHANGED <<activity, submissionVars, readingVars, attestation,
                   transaction_read, submission>>

\* The caller has the answer
ValidationReturn ==
    /\ validation.pc = "done"
    /\ validation' = NoValidation
    /\ UNCHANGED <<activity, submissionVars, readingVars, attestation,
                   transaction_read, submission>>

\* ------------------------------------ read_outgoing_transfers_in_transaction
\* The receipts an endpoint may answer with: the hash of the transaction, as
\* the values of its hex digits, and at most two log entries, each a
\* TransferFrom event of the hub or an entry of another event
ReceiptHashes == {<<10>>, <<11>>}
LogEntries ==
    {[event |-> "TransferFrom", destination_blockchain |-> "BNB_CHAIN"],
     [event |-> "TransferFrom", destination_blockchain |-> ETHEREUM],
     [event |-> "Approval", destination_blockchain |-> "none"]}
Numbered(entries) ==
    [i \in DOMAIN entries |->
        [event |-> entries[i].event, block_number |-> 1, log_index |-> i,
         destination_blockchain |-> entries[i].destination_blockchain]]
ReceiptLogs ==
    {Numbered(entries) :
        entries \in {<<>>} \cup {<<a>> : a \in LogEntries}
                          \cup {<<a, b>> : a, b \in LogEntries}}
Receipts == [transactionHash : ReceiptHashes, logs : ReceiptLogs]
NoReceipt == [transactionHash |-> <<>>, logs |-> <<>>]

\* What the endpoints answer: each fails or has a receipt, and the receipts
\* are the two of r
EndpointResponses(r) ==
    [Endpoints -> {[ok |-> FALSE, value |-> NoReceipt],
                   [ok |-> TRUE, value |-> r[1]],
                   [ok |-> TRUE, value |-> r[2]]}]
Successful(responses) ==
    {responses[e].value : e \in {x \in Endpoints : responses[x].ok}}

\* .get(): the reduction of the endpoints' answers that asks them to match
GetMajorityResult(responses) ==
    LET values == Successful(responses)
        votes(v) == Cardinality({e \in Endpoints :
                                    responses[e].ok /\ responses[e].value = v})
        winners == {v \in values : \A u \in values \ {v} : votes(v) > votes(u)}
    IN  IF values = {}
        THEN [raised |-> NodeConnectionError, value |-> NoReceipt]
        ELSE IF winners # {}
        THEN [raised |-> NoException, value |-> CHOOSE v \in winners : TRUE]
        ELSE [raised |-> ResultsNotMatchingError, value |-> NoReceipt]
GetResult(responses) ==
    LET values == Successful(responses)
    IN  IF values = {}
        THEN [raised |-> NodeConnectionError, value |-> NoReceipt]
        ELSE IF Cardinality(values) = 1
        THEN [raised |-> NoException, value |-> CHOOSE v \in values : TRUE]
        ELSE [raised |-> ResultsNotMatchingError, value |-> NoReceipt]

\* eth.get_transaction_receipt(transaction_id).get(): the read asks the
\* answers of the endpoints to match
GetTransactionReceiptOfMajority(responses) == GetMajorityResult(responses)
GetTransactionReceipt(responses) == GetResult(responses)

\* HexBytes.hex(): 0x and the hex digits in lower case
HexChar(value) ==
    CASE value = 10 -> "a"
      [] value = 11 -> "b"
      [] value = 12 -> "c"
      [] value = 13 -> "d"
      [] value = 14 -> "e"
      [] value = 15 -> "f"
      [] value = 0 -> "0"
      [] value = 1 -> "1"
      [] value = 2 -> "2"
      [] OTHER -> "3"
Hex(bytes) == <<"0", "x">> \o [i \in DOMAIN bytes |-> HexChar(bytes[i])]

\* the assertion on the receipt
ReceiptHashUnchecked(transaction_receipt, transaction_id) == TRUE
ReceiptHashMatches(transaction_receipt, transaction_id) ==
    Hex(transaction_receipt.transactionHash) = transaction_id

\* TransferFrom().process_receipt(transaction_receipt, errors=DISCARD): the
\* TransferFrom events among the logs, in log order
RECURSIVE ProcessReceipt(_)
ProcessReceipt(logs) ==
    IF logs = <<>> THEN <<>>
    ELSE IF Head(logs).event = "TransferFrom"
    THEN <<Head(logs)>> \o ProcessReceipt(Tail(logs))
    ELSE ProcessReceipt(Tail(logs))

\* read_outgoing_transfers_in_transaction left by exc
TransactionReadFailed(t, exc) ==
    [t EXCEPT !.pc = "done", !.raised = exc,
              !.result = [kind |-> HandleQueryError(exc, InTransactionMessage),
                          outgoing_transfers |-> <<>>,
                          transaction_id |-> t.transaction_id,
                          hub_address |-> t.hub_address]]

\* responses are the answers of the endpoints to get_transaction_receipt
ReadOutgoingTransfersInTransaction(transaction_id, hub_address, responses) ==
    /\ activity = "reading_transaction"
    /\ transaction_read.pc = "idle"
    /\ LET reduced == GetTransactionReceipt(responses)
           event_logs == ProcessReceipt(reduced.value.logs)
           t == [transaction_read EXCEPT !.transaction_id = transaction_id,
                                         !.hub_address = hub_address,
                                         !.responses = responses,
                                         !.reduced = reduced]
       IN  transaction_read' =
             IF reduced.raised # NoException
             THEN TransactionReadFailed(t, reduced.raised)
             ELSE IF ~ReceiptHashMatches(reduced.value, transaction_id)
             THEN TransactionReadFailed(t, AssertionError)
             ELSE IF OwnDestination(event_logs)
             THEN TransactionReadFailed([t EXCEPT !.event_logs = event_logs],
                                        AssertionError)
             ELSE [t EXCEPT
                     !.pc = "done",
                     !.event_logs = event_logs,
                     !.result = [kind |-> Returned,
                                 outgoing_transfers |->
                                     CreateOutgoingTransfers(event_logs),
                                 transaction_id |-> <<>>,
                                 hub_address |-> <<>>]]
    /\ UNCHANGED <<activity, submissionVars, readingVars, validation,
                   attestation, submission>>

\* The caller has the transfers or the error
TransactionReadReturn ==
    /\ transaction_read.pc = "done"
    /\ transaction_read' = NoTransactionRead
    /\ UNCHANGED <<activity, submissionVars, readingVars, validation,
                   attestation, submission>>

\* ------------------------------------------- transferTo message and signature
\* Blockchain.value: the integer of the enumeration member
BlockchainValue(blockchain) == IF blockchain = ETHEREUM THEN 0 ELSE 1

\* the bytes an address in hex notation stands for, as a sequence of the
\* values of its hex digits
HexValue(c) ==
    CASE c \in {"a", "A"} -> 10
      [] c \in {"b", "B"} -> 11
      [] c \in {"c", "C"} -> 12
      [] c \in {"d", "D"} -> 13
      [] c \in {"e", "E"} -> 14
      [] c \in {"f", "F"} -> 15
      [] c = "0" -> 0
      [] c = "1" -> 1
      [] c = "2" -> 2
      [] OTHER -> 3
HexDecode(string) == [i \in 1..(Len(string) - 2) |-> HexValue(string[i + 2])]

\* The tightly packed encoding of one value: an integer and an address fill
\* one field of fixed width, a string contributes its characters and nothing
\* that tells its length
EncodeValue(type, value) ==
    CASE type = "uint256" -> << [uint256 |-> value] >>
      [] type = "address" -> << [address |-> HexDecode(value)] >>
      [] type = "string" -> [i \in 1..Len(value) |-> [byte |-> value[i]]]

RECURSIVE EncodePacked(_, _)
EncodePacked(types, values) ==
    IF types = <<>>
    THEN <<>>
    ELSE EncodeValue(Head(types), Head(values))
             \o EncodePacked(Tail(types), Tail(values))

\* web3.Web3.solidity_keccak: the hash of the packed encoding; the hash is
\* taken as free of collisions, so it is represented by what it hashes
SolidityKeccak(types, values) == [keccak |-> EncodePacked(types, values)]

\* eth_account.messages.encode_defunct: the personal-message envelope
EncodeDefunct(primitive) ==
    [version |-> "E", header |-> "thereum Signed Message:\n32",
     body |-> primitive]

TransferToMessageTypesAllStrings ==
    <<"uint256", "uint256", "string", "uint256", "string", "string",
      "string", "string", "uint256", "uint256", "address", "address",
      "address">>
TransferToMessageTypes ==
    <<"uint256", "uint256", "string", "uint256", "string", "address",
      "string", "address", "uint256", "uint256", "address", "address",
      "address">>

CreateTransferToMessage(source_blockchain, destination_blockchain, source_transaction_id, source_transfer_id, sender_address, recipient_address, source_token_address, destination_token_address, amount, validator_nonce, hub_address, forwarder_address, pan_token_address) ==
    EncodeDefunct(SolidityKeccak(TransferToMessageTypes,
        <<BlockchainValue(source_blockchain),
          BlockchainValue(destination_blockchain), source_transaction_id,
          source_transfer_id, sender_address, recipient_address,
          source_token_address, destination_token_address, amount,
          validator_nonce, hub_address, forwarder_address,
          pan_token_address>>))

\* self._get_config()
Config ==
    [hub |-> <<"0", "x", "c">>, forwarder |-> <<"0", "x", "d">>,
     pan_token |-> <<"0", "x", "e">>]

\* The validator's key and the address that belongs to it; OtherAddress is
\* what a recovery yields when the message is not the signed one
PrivateKey == "private_key"
AccountAddress(private_key) == <<"0", "x", "f">>
OtherAddress == <<"0", "x", "0">>

\* web3.Account.sign_message and web3.Account.recover_message: a signature
\* binds a message to a key, and recovery against another message yields
\* another address
SignMessage(message, private_key) ==
    [message |-> message, private_key |-> private_key, well_formed |-> TRUE]
MalformedSignature ==
    [message |-> EncodeDefunct(SolidityKeccak(<<>>, <<>>)),
     private_key |-> PrivateKey, well_formed |-> FALSE]
RecoverMessage(message, signature) ==
    IF signature.message = message
    THEN AccountAddress(signature.private_key)
    ELSE OtherAddress

CreateTransferToSignatureMessage(incoming_transfer, validator_nonce, hub_address, forwarder_address, pan_token_address) ==
    CreateTransferToMessage(
        incoming_transfer.source_blockchain,
        incoming_transfer.eventual_destination_blockchain,
        incoming_transfer.source_transaction_id,
        incoming_transfer.source_transfer_id,
        incoming_transfer.sender_address,
        incoming_transfer.eventual_recipient_address,
        incoming_transfer.source_token_address,
        incoming_transfer.eventual_destination_token_address,
        incoming_transfer.amount, validator_nonce, hub_address,
        forwarder_address, pan_token_address)

\* the message recover_transfer_to_signer_address derives from its request
RecoveryMessageSwapped(request) ==
    CreateTransferToMessage(
        request.source_blockchain, ETHEREUM, request.source_transaction_id,
        request.source_transfer_id, request.source_token_address,
        request.recipient_address, request.sender_address,
        request.destination_token_address, request.amount,
        request.validator_nonce, Config.hub, Config.forwarder,
        Config.pan_token)
RecoveryMessage(request) ==
    CreateTransferToMessage(
        request.source_blockchain, ETHEREUM, request.source_transaction_id,
        request.source_transfer_id, request.sender_address,
        request.recipient_address, request.source_token_address,
        request.destination_token_address, request.amount,
        request.validator_nonce, Config.hub, Config.forwarder,
        Config.pan_token)

\* Values of the fields of a transfer
TransactionIds == {<<"0", "x", "1">>, <<"0", "x", "2">>}
TransferIds == {0, 1}
Addresses == {<<"0", "x", "a">>, <<"0", "x", "b">>}
Amounts == {1, 2}
ValidatorNonces == {0, 1}

IncomingTransfers ==
    [source_blockchain : Blockchains,
     eventual_destination_blockchain : Blockchains,
     source_transaction_id : TransactionIds,
     source_transfer_id : TransferIds,
     sender_address : Addresses,
     eventual_recipient_address : Addresses,
     source_token_address : Addresses,
     eventual_destination_token_address : Addresses,
     amount : Amounts]

\* The recovery request that carries the fields of a signed transfer
RequestOf(incoming_transfer, validator_nonce, signature) ==
    [source_blockchain |-> incoming_transfer.source_blockchain,
     source_transaction_id |-> incoming_transfer.source_transaction_id,
     source_transfer_id |-> incoming_transfer.source_transfer_id,
     sender_address |-> incoming_transfer.sender_address,
     recipient_address |-> incoming_transfer.eventual_recipient_address,
     source_token_address |-> incoming_transfer.source_token_address,
     destination_token_address |->
         incoming_transfer.eventual_destination_token_address,
     amount |-> incoming_transfer.amount,
     validator_nonce |-> validator_nonce,
     signature |-> signature]

\* Recovery requests: the fields that were signed, or those with one field
\* changed
RecoveryRequests(base) ==
    {base}
    \cup {[base EXCEPT !.source_blockchain = v] : v \in Blockchains}
    \cup {[base EXCEPT !.source_transaction_id = v] : v \in TransactionIds}
    \cup {[base EXCEPT !.source_transfer_id = v] : v \in TransferIds}
    \cup {[base EXCEPT !.sender_address = v] : v \in Addresses}
    \cup {[base EXCEPT !.recipient_address = v] : v \in Addresses}
    \cup {[base EXCEPT !.source_token_address = v] : v \in Addresses}
    \cup {[base EXCEPT !.destination_token_address = v] : v \in Addresses}
    \cup {[base EXCEPT !.amount = v] : v \in Amounts}
    \cup {[base EXCEPT !.validator_nonce = v] : v \in ValidatorNonces}

\* start_transfer_to_submission up to the signature: the check of the
\* eventual destination blockchain, then __create_transfer_to_signature
SignTransferTo(incoming_transfer, validator_nonce) ==
    /\ activity = "attesting"
    /\ attestation.pc = "idle"
    /\ IF IsOwnDestination(incoming_transfer.eventual_destination_blockchain)
       THEN LET message == CreateTransferToSignatureMessage(
                               incoming_transfer, validator_nonce, Config.hub,
                               Config.forwarder, Config.pan_token)
            IN  attestation' =
                    [attestation EXCEPT
                        !.pc = "signed",
                        !.incoming_transfer = incoming_transfer,
                        !.validator_nonce = validator_nonce,
                        !.message = message,
                        !.signature = SignMessage(message, PrivateKey)]
       ELSE attestation' =
                [attestation EXCEPT
                    !.pc = "rejected",
                    !.incoming_transfer = incoming_transfer,
                    !.validator_nonce = validator_nonce,
                    !.raised = EthereumClientError,
                    !.result = DestinationBlockchainError]
    /\ UNCHANGED <<activity, submissionVars, readingVars, validation,
                   transaction_read, submission>>

\* recover_transfer_to_signer_address
RecoverTransferToSignerAddress(request) ==
    /\ attestation.pc = "signed"
    /\ LET message == RecoveryMessage(request)
       IN  attestation' =
               IF request.signature.well_formed
               THEN [attestation EXCEPT
                        !.pc = "recovered",
                        !.request = request,
                        !.recovered_message = message,
                        !.result = RecoverMessage(message, request.signature)]
               ELSE [attestation EXCEPT
                        !.pc = "recovered",
                        !.request = request,
                        !.recovered_message = message,
                        !.raised = EthereumClientError,
                        !.result = "unable to recover the signer's address"]
    /\ UNCHANGED <<activity, submissionVars, readingVars, validation,
                   transaction_read, submission>>

\* The caller has the answer
AttestationReturn ==
    /\ attestation.pc \in {"rejected", "recovered"}
    /\ attestation' = NoAttestation
    /\ UNCHANGED <<activity, submissionVars, readingVars, validation,
                   transaction_read, submission>>

\* ------------------------------------- fees of a transaction and resubmission
\* self._get_config(): the fee settings; max_total_fee_per_gas may be absent
FeeConfigs ==
    {config \in [min_adaptable_fee_per_gas : 1..2,
                 max_total_fee_per_gas : {None} \cup 1..MaxFeePerGas,
                 adaptable_fee_increase_factor : 2..3,
                 blocks_until_resubmission : 1..2] :
        \/ config.max_total_fee_per_gas = None
        \/ config.max_total_fee_per_gas >= config.min_adaptable_fee_per_gas}

\* self._get_config().get('max_total_fee_per_gas')
MaxTotalFeePerGasIgnored(config) == None
MaxTotalFeePerGas(config) == config.max_total_fee_per_gas

\* the fee settings of the TransactionSubmissionStartRequest
SubmissionRequest(config) ==
    [min_adaptable_fee_per_gas |-> config.min_adaptable_fee_per_gas,
     max_total_fee_per_gas |-> MaxTotalFeePerGas(config),
     adaptable_fee_increase_factor |-> config.adaptable_fee_increase_factor,
     blocks_until_resubmission |-> config.blocks_until_resubmission]

\* the fee per gas of a resubmission: the previous fee times the factor,
\* capped at the maximum if there is one
IncreasedFeePerGas(request, previous_fee_per_gas) ==
    LET increased == previous_fee_per_gas * request.adaptable_fee_increase_factor
    IN  IF request.max_total_fee_per_gas # None
           /\ increased > request.max_total_fee_per_gas
        THEN request.max_total_fee_per_gas
        ELSE increased

\* __submit_transfer_to_request: the request with the configured fee
\* settings is handed to start_transaction_submission, which submits the
\* transaction with the minimum fee per gas
SubmitTransferToRequest(config) ==
    /\ activity = "resubmitting"
    /\ submission.pc = "idle"
    /\ LET request == SubmissionRequest(config)
       IN  submission' = [submission EXCEPT
                             !.pc = "submitted",
                             !.config = config,
                             !.request = request,
                             !.fee_per_gas = request.min_adaptable_fee_per_gas]
    /\ UNCHANGED <<activity, submissionVars, readingVars, validation,
                   attestation, transaction_read>>

\* a block without the transaction in it
BlockWithoutConfirmation ==
    /\ submission.pc = "submitted"
    /\ submission.blocks < submission.request.blocks_until_resubmission
    /\ submission' = [submission EXCEPT !.blocks = @ + 1]
    /\ UNCHANGED <<activity, submissionVars, readingVars, validation,
                   attestation, transaction_read>>

\* the transaction did not confirm within blocks_until_resubmission blocks
\* and is submitted again
Resubmit ==
    /\ submission.pc = "submitted"
    /\ submission.blocks = submission.request.blocks_until_resubmission
    /\ submission.resubmissions < MaxResubmissions
    /\ submission' = [submission EXCEPT
                         !.previous_fee_per_gas = submission.fee_per_gas,
                         !.fee_per_gas =
                             IncreasedFeePerGas(submission.request,
                                                submission.fee_per_gas),
                         !.blocks = 0,
                         !.resubmissions = @ + 1]
    /\ UNCHANGED <<activity, submissionVars, readingVars, validation,
                   attestation, transaction_read>>

\* the transaction is confirmed
Confirm ==
    /\ submission.pc = "submitted"
    /\ submission' = NoSubmission
    /\ UNCHANGED <<activity, submissionVars, readingVars, validation,
                   attestation, transaction_read>>

\* the operation of the activity is called when no call of it is under way
OperationsNext ==
    \/ /\ activity = "validating" /\ validation.pc = "idle"
       /\ \E transaction_id \in TransactionIdStrings :
             CheckTransactionId(transaction_id)
    \/ ValidationReturn
    \/ /\ activity = "attesting" /\ attestation.pc = "idle"
       /\ \E incoming_transfer \in IncomingTransfers,
             validator_nonce \in ValidatorNonces :
             SignTransferTo(incoming_transfer, validator_nonce)
    \/ /\ attestation.pc = "signed"
       /\ \E signature \in {attestation.signature, MalformedSignature} :
         \E request \in RecoveryRequests(
                RequestOf(attestation.incoming_transfer,
                          attestation.validator_nonce, signature)) :
           RecoverTransferToSignerAddress(request)
    \/ AttestationReturn
    \/ /\ activity = "reading_transaction" /\ transaction_read.pc = "idle"
       /\ \E transaction_id \in {<<"0", "x", "a">>, <<"0", "x", "A">>},
             hub_address \in {Config.hub, <<"0", "x", "b">>},
             r \in Receipts \X Receipts :
            \E responses \in EndpointResponses(r) :
              ReadOutgoingTransfersInTransaction(transaction_id, hub_address,
                                                 responses)
    \/ TransactionReadReturn
    \/ /\ activity = "resubmitting" /\ submission.pc = "idle"
       /\ \E config \in FeeConfigs : SubmitTransferToRequest(config)
    \/ BlockWithoutConfirmation
    \/ Resubmit
    \/ Confirm

Next == SubmissionNext \/ ReadingNext \/ OperationsNext

\* ------------------------------------------ reads that run to their end
\* The chunk loop is straight-line code of one thread: a get_logs request
\* returns or raises, and the step after it is taken
InitReadingOnly == Init /\ activity = "reading"

ReadProceeds ==
    /\ WF_vars(\E exc \in NodeFailures : GetLogsChunk(exc))
    /\ WF_vars(ReturnOutgoingTransfers)

SpecReading == InitReadingOnly /\ [][ReadingNext]_vars /\ ReadProceeds

\* ------------------------------- concurrent start_transfer_to_submission calls
\* Nothing in the operation keeps two calls apart: a worker starts a call
\* whatever the other worker does
StartTransferToSubmissionConcurrently(w, id, destination) ==
    /\ activity = "concurrent_submission"
    /\ call[w].pc = "idle"
    /\ LET c == [call[w] EXCEPT !.request =
                    [internal_transfer_id |-> id,
                     eventual_destination_blockchain |-> destination]]
       IN  call' = [call EXCEPT ![w] =
                IF IsOwnDestination(destination)
                THEN [c EXCEPT !.pc = "connect"]
                ELSE [c EXCEPT !.pc = "done",
                               !.result = DestinationBlockchainError]]
    /\ UNCHANGED <<activity, operationVars, node_tx_count, transfer_nonce,
                   rejected_low, submitted_nonces, readingVars>>

\* A node sees one more transaction of the validator's account
NodeCountsTransactionConcurrently(n) ==
    /\ activity = "concurrent_submission"
    /\ node_tx_count[n] < MaxTxCount
    /\ node_tx_count' = [node_tx_count EXCEPT ![n] = @ + 1]
    /\ UNCHANGED <<activity, operationVars, transfer_nonce, call, rejected_low,
                   submitted_nonces, readingVars>>

InitConcurrent ==
    /\ activity = "concurrent_submission"
    /\ InitSubmission
    /\ InitReading
    /\ InitOperations
    /\ number_blocks = 1
    /\ own_destination_block = None

\* Two workers submit the same transfer; the nodes answer, and a
\* submission is taken or rejected for its nonce
NextConcurrent ==
    \/ \E w \in Workers :
           StartTransferToSubmissionConcurrently(w, "t1", ETHEREUM)
    \/ \E w \in Workers : CreateNodeConnections(w, NoException)
    \/ \E w \in Workers : CreateTransferToSignature(w, NoException)
    \/ \E w \in Workers : VerifyTransferToRequest(w, NoException, {})
    \/ \E w \in Workers : GetTransactionCount(w, NoException)
    \/ \E w \in Workers : UpdateNonce(w)
    \/ \E w \in Workers : ReadNonce(w)
    \/ \E w \in Workers,
          exc \in {NoException, TransactionNonceTooLowError} :
           StartTransactionSubmission(w, exc)
    \/ \E w \in Workers : ResetNonce(w)
    \/ \E w \in Workers : Return(w)
    \/ NodeCountsTransactionConcurrently("node_a")

SpecConcurrent == InitConcurrent /\ [][NextConcurrent]_vars

Spec == Init /\ [][Next]_vars

\* ====================================================================
\* Properties
\* ====================================================================
Rejections == {TransactionNonceTooLowError, TransactionUnderpricedError}
TypedErrors == {NonMatchingForwarderError, SourceTransferIdAlreadyUsedError}
NonceSteps == {"count", "update", "read", "submit", "reset"}

TransferOf(w) == call[w].request.internal_transfer_id

Occurrences(seq, what) == Cardinality({i \in DOMAIN seq : seq[i] = what})

\* C1: when the previous call for a transfer id was rejected with nonce too
\* low while nonce N was stored for it, and the next call for that id has
\* succeeded, the nonce stored for the id is strictly greater than N.
C1_NonceGreaterAfterResubmission ==
    \A w \in Workers :
        (/\ call[w].pc = "done"
         /\ call[w].result = Submitted
         /\ rejected_low[TransferOf(w)] # None)
        => /\ transfer_nonce[TransferOf(w)] # None
           /\ transfer_nonce[TransferOf(w)] > rejected_low[TransferOf(w)]

\* a call has succeeded right after a nonce-too-low rejection for its id
C1_Witness ==
    \E w \in Workers :
        /\ call[w].pc = "done"
        /\ call[w].result = Submitted
        /\ rejected_low[TransferOf(w)] # None
        /\ transfer_nonce[TransferOf(w)] > rejected_low[TransferOf(w)]

\* C2: when a call whose submission was rejected with nonce too low or with
\* underpriced returns to its caller, no nonce is stored for its transfer id.
C2_NonceClearedOnRejection ==
    \A w \in Workers :
        (call[w].pc = "done" /\ call[w].raised \in Rejections)
        => transfer_nonce[TransferOf(w)] = None

\* an underpriced rejection has cleared a nonce that the call had stored
C2_Witness ==
    \E w \in Workers :
        /\ call[w].pc = "done"
        /\ call[w].raised = TransactionUnderpricedError
        /\ call[w].nonce # None
        /\ transfer_nonce[TransferOf(w)] = None

\* C3 as claimed: a nonce-too-low or underpriced rejection does not end the
\* call with an error for the caller, unless the call has retried the
\* submission.
C3_RejectionNeverReachesCaller ==
    \A w \in Workers :
        (call[w].pc = "done" /\ call[w].raised \in Rejections)
        => \/ call[w].result = Submitted
           \/ Occurrences(call[w].log, "submit") > 1

\* C3 as amended: a nonce-too-low or underpriced rejection resets the stored
\* nonce and then reaches the caller as the client error "unable to start a
\* transferTo submission"; the call submits once and does not retry.
C3_RejectionReachesCallerWrapped ==
    \A w \in Workers :
        (call[w].pc = "done" /\ call[w].raised \in Rejections)
        => /\ call[w].result = UnableToStartError
           /\ Occurrences(call[w].log, "submit") = 1
           /\ call[w].log[Len(call[w].log)] = "reset"

\* a nonce-too-low rejection was delivered to the caller as the client error
C3_Witness ==
    \E w \in Workers :
        /\ call[w].pc = "done"
        /\ call[w].raised = TransactionNonceTooLowError
        /\ call[w].result = UnableToStartError

\* C4: between two resets of a transfer id every submission for it carries
\* the same nonce: a call about to submit carries the stored nonce, which is
\* the nonce of the earlier submissions, whatever count the nodes report now.
C4_SameNonceUntilReset ==
    /\ \A t \in Transfers : Cardinality(submitted_nonces[t]) <= 1
    /\ \A w \in Workers :
           call[w].pc = "submit"
           => /\ call[w].nonce = transfer_nonce[TransferOf(w)]
              /\ submitted_nonces[TransferOf(w)] \subseteq {call[w].nonce}

\* a call is about to submit again with the nonce of the earlier submission
\* although the nodes now report a higher count
C4_Witness ==
    \E w \in Workers :
        /\ call[w].pc = "submit"
        /\ submitted_nonces[TransferOf(w)] = {call[w].nonce}
        /\ call[w].transaction_count > call[w].nonce

\* C5: in every call the interactions happen in the order node connections,
\* signature, verifyTransferTo, nonce, submission: the nonce store is touched
\* and the transaction submitted only after verifyTransferTo returned without
\* rejection, and a rejected verifyTransferTo is the last interaction.
C5_StepsInOrder ==
    \A w \in Workers :
        LET l == call[w].log
        IN  /\ l # <<>> => IsOwnDestination(
                               call[w].request.eventual_destination_blockchain)
            /\ \A i \in DOMAIN l :
                /\ l[i] = "sign" => i = 2 /\ l[1] = "connect"
                /\ l[i] \in {"verify_ok", "verify_rejected"}
                       => i = 3 /\ l[2] = "sign"
                /\ l[i] \in NonceSteps => i > 3 /\ l[3] = "verify_ok"
                /\ l[i] = "submit" => i = 7 /\ l[6] = "read"
                /\ l[i] = "verify_rejected"
                       => i = Len(l) /\ call[w].pc = "done"

\* a call has ended on a rejected verifyTransferTo
C5_Witness ==
    \E w \in Workers :
        /\ call[w].pc = "done"
        /\ call[w].log = <<"connect", "sign", "verify_rejected">>
        /\ call[w].nonce = None

\* C6: a call whose incoming transfer has another eventual destination
\* blockchain than the client's own ends with the client error before any
\* interaction: no node connection, signature, contract call or nonce access.
C6_WrongDestinationRejectedFirst ==
    \A w \in Workers :
        (/\ call[w].pc # "idle"
         /\ call[w].request.eventual_destination_blockchain # ETHEREUM)
        => /\ call[w].pc = "done"
           /\ call[w].result = DestinationBlockchainError
           /\ call[w].log = <<>>
           /\ call[w].nonce = None

\* a call for another destination blockchain has ended
C6_Witness ==
    \E w \in Workers :
        /\ call[w].pc = "done"
        /\ call[w].request.eventual_destination_blockchain = "BNB_CHAIN"
        /\ call[w].result = DestinationBlockchainError

\* C7: a verifyTransferTo rejected by the contract reaches the caller as
\* NonMatchingForwarderError if its text has the forwarder message, else as
\* SourceTransferIdAlreadyUsedError if it has the already-used message, else
\* as the client error "unable to start a transferTo submission".
C7_ContractRejectionClassified ==
    \A w \in Workers :
        (call[w].pc = "done" /\ call[w].verify_raised.exc = ContractLogicError)
        => call[w].result =
             IF _NON_MATCHING_FORWARDER_ERROR \in call[w].verify_raised.texts
             THEN NonMatchingForwarderError
             ELSE IF _SOURCE_TRANSFER_ID_ALREADY_USED_ERROR
                         \in call[w].verify_raised.texts
             THEN SourceTransferIdAlreadyUsedError
             ELSE UnableToStartError

\* a contract rejection with another text has reached the caller as the
\* generic client error
C7_Witness ==
    \E w \in Workers :
        /\ call[w].pc = "done"
        /\ call[w].verify_raised = [exc |-> ContractLogicError, texts |-> {}]
        /\ call[w].result = UnableToStartError

\* C8: a ResultsNotMatchingError raised by a node read of any node-querying
\* operation, and a typed contract rejection raised in
\* start_transfer_to_submission, reach the caller as that same error.
C8_InconsistencyAndTypedErrorsUnchanged ==
    /\ \A w \in Workers :
           (/\ call[w].pc = "done"
            /\ call[w].raised \in {ResultsNotMatchingError} \cup TypedErrors)
           => call[w].result = call[w].raised
    /\ (read.pc = "done" /\ read.raised = ResultsNotMatchingError)
           => read.result.kind = ResultsNotMatchingError
    /\ last_query.raised = ResultsNotMatchingError
           => last_query.result = ResultsNotMatchingError
    /\ transaction_read.raised = ResultsNotMatchingError
           => transaction_read.result.kind = ResultsNotMatchingError

\* a node inconsistency in a later chunk of a read has reached the caller
C8_Witness ==
    /\ read.pc = "done"
    /\ read.fetched # <<>>
    /\ read.raised = ResultsNotMatchingError
    /\ read.result.kind = ResultsNotMatchingError

\* all chunks of the read have been fetched
AllFetched ==
    /\ read.pc \in {"get_logs", "done"}
    /\ read.fetched # <<>>
    /\ read.to_block_numbers = <<>>

\* C9: the ranges fetched by read_outgoing_transfers_from_block start at the
\* from_block_number passed, follow each other without gap or overlap in
\* increasing order and end at the latest block number; the concatenated
\* events are those of one fetch over [from_block_number, latest].
C9_ChunksCoverRangeOnce ==
    LET f == read.fetched
    IN  /\ \A i \in DOMAIN f :
            /\ f[i][1] <= f[i][2]
            /\ i = 1 => f[i][1] = read.argument
            /\ i > 1 => f[i][1] = f[i - 1][2] + 1
        /\ f # <<>> =>
               read.event_logs = GetLogs(read.argument, f[Len(f)][2],
                                         own_destination_block)
        /\ AllFetched =>
               /\ f[Len(f)][2] = read.latest_block_number
               /\ read.event_logs =
                      GetLogs(read.argument, read.latest_block_number,
                              own_destination_block)

\* a read of several chunks that hold events is complete
C9_Witness ==
    /\ AllFetched
    /\ Len(read.fetched) >= 2
    /\ Len(read.event_logs) >= 3

\* C10 as claimed: the latest block number is the maximum of the block
\* numbers the nodes report.
C10_LatestIsMaximum ==
    read.latest_block_number # None
    => read.latest_block_number = GetMaximumResult(read.block_numbers)

\* C10 as amended: the latest block number is the minimum of the block
\* numbers the nodes report; this minimum is the upper bound of the range
\* read and the latest block number returned to the caller.
C10_LatestIsMinimum ==
    /\ read.latest_block_number # None
       => read.latest_block_number = GetMinimumResult(read.block_numbers)
    /\ AllFetched
       => read.fetched[Len(read.fetched)][2] =
              GetMinimumResult(read.block_numbers)
    /\ (read.pc = "done" /\ read.result.kind = FromBlockResponse)
       => read.result.latest_block_number =
              GetMinimumResult(read.block_numbers)

\* a read has returned while the nodes reported different block numbers
C10_Witness ==
    /\ read.pc = "done"
    /\ read.result.kind = FromBlockResponse
    /\ read.fetched # <<>>
    /\ \E n, m \in Nodes : read.block_numbers[n] < read.block_numbers[m]

\* C11: a read that starts beyond the latest block number returns no
\* transfers and that latest block number without fetching any logs; a read
\* that starts at the latest block number fetches exactly the range
\* [latest, latest].
C11_NothingOrOneBlockRead ==
    LET latest == read.latest_block_number
    IN  /\ (latest # None /\ read.argument > latest)
           => /\ read.pc = "done"
              /\ read.fetched = <<>>
              /\ read.event_logs = <<>>
              /\ read.result = [kind |-> FromBlockResponse,
                                outgoing_transfers |-> <<>>,
                                latest_block_number |-> latest,
                                from_block_number |-> None]
        /\ (latest # None /\ read.argument = latest)
           => /\ read.fetched \in {<<>>, << <<latest, latest>> >>}
              /\ (read.fetched = <<>> /\ read.raised = NoException)
                     => /\ read.pc = "get_logs"
                        /\ read.to_block_numbers = <<latest>>

\* a read that started at the latest block number has fetched its one block
\* and returned
C11_Witness ==
    /\ read.pc = "done"
    /\ read.result.kind = FromBlockResponse
    /\ read.argument = read.latest_block_number
    /\ read.fetched = << <<read.argument, read.argument>> >>

\* the string starts with 0x and 64 hex digits
HasValidPrefix(string) ==
    /\ Len(string) >= 2 + HexDigits
    /\ SubSeq(string, 1, 2) = <<"0", "x">>
    /\ \A i \in 3..(2 + HexDigits) : HexDigit(string[i])

\* C12 as claimed: is_valid_transaction_id is true for exactly the strings
\* that begin with 0x and 64 hex digits, whatever follows them.
C12_PrefixMatch ==
    validation.pc = "done"
    => (validation.valid <=> HasValidPrefix(validation.transaction_id))

\* C12 as amended: is_valid_transaction_id performs a full match: it is true
\* for exactly the strings that are 0x followed by 64 hex digits (upper or
\* lower case) and nothing else; a string with characters after those 66 is
\* not valid.
C12_FullMatch ==
    validation.pc = "done"
    => (validation.valid <=>
           /\ HasValidPrefix(validation.transaction_id)
           /\ Len(validation.transaction_id) = 2 + HexDigits)

\* 0x and 64 times "a" has been found valid
C12_Witness ==
    /\ validation.pc = "done"
    /\ validation.valid
    /\ validation.transaction_id = <<"0", "x">> \o Repeated("a", HexDigits)

\* The packed encoding of the 13 fields of a signed transfer, with the
\* recipient address and the destination token address encoded as given
ExpectedPacked(recipient_type, destination_token_type) ==
    LET t == attestation.incoming_transfer
    IN  EncodeValue("uint256", BlockchainValue(t.source_blockchain))
        \o EncodeValue("uint256",
                       BlockchainValue(t.eventual_destination_blockchain))
        \o EncodeValue("string", t.source_transaction_id)
        \o EncodeValue("uint256", t.source_transfer_id)
        \o EncodeValue("string", t.sender_address)
        \o EncodeValue(recipient_type, t.eventual_recipient_address)
        \o EncodeValue("string", t.source_token_address)
        \o EncodeValue(destination_token_type,
                       t.eventual_destination_token_address)
        \o EncodeValue("uint256", t.amount)
        \o EncodeValue("uint256", attestation.validator_nonce)
        \o EncodeValue("address", Config.hub)
        \o EncodeValue("address", Config.forwarder)
        \o EncodeValue("address", Config.pan_token)

\* C13 as claimed: the transferTo message is built from the 13 fields in
\* the given order, with the recipient address and the destination token
\* address encoded as strings.
C13_RecipientAndTokenAsStrings ==
    attestation.pc \in {"signed", "recovered"}
    => attestation.message.body.keccak = ExpectedPacked("string", "string")

\* C13 as amended: the transferTo message is built from the 13 fields in
\* the given order; the sender address and the source token address are
\* encoded as strings, the recipient address and the destination token
\* address as addresses.
C13_RecipientAndTokenAsAddresses ==
    attestation.pc \in {"signed", "recovered"}
    => /\ attestation.message
              = EncodeDefunct([keccak |-> ExpectedPacked("address",
                                                         "address")])
       /\ Len(TransferToMessageTypes) = 13

\* a transfer has been signed
C13_Witness ==
    /\ attestation.pc = "signed"
    /\ attestation.message.body.keccak # <<>>
    /\ attestation.incoming_transfer.sender_address
           = attestation.incoming_transfer.eventual_recipient_address

\* C14: recovering the signer from the signature of an accepted transfer,
\* with a request of the same fields, re-derives the signed message and
\* returns the validator's own address; with one field changed the message
\* differs and another address is returned.
C14_RoundTrip ==
    (attestation.pc = "recovered"
        /\ attestation.request.signature.well_formed)
    => LET same == attestation.request
                       = RequestOf(attestation.incoming_transfer,
                                   attestation.validator_nonce,
                                   attestation.signature)
       IN  /\ attestation.raised = NoException
           /\ same => /\ attestation.recovered_message = attestation.message
                      /\ attestation.result = AccountAddress(PrivateKey)
           /\ ~same => /\ attestation.recovered_message # attestation.message
                       /\ attestation.result # AccountAddress(PrivateKey)

\* the validator's address has been recovered from a request with the
\* signed fields
C14_Witness ==
    /\ attestation.pc = "recovered"
    /\ attestation.request
           = RequestOf(attestation.incoming_transfer,
                       attestation.validator_nonce, attestation.signature)
    /\ attestation.result = AccountAddress(PrivateKey)

\* the transfers have the client's blockchain as source and another one as
\* destination
SourceIsNotDestination(outgoing_transfers) ==
    \A i \in DOMAIN outgoing_transfers :
        /\ outgoing_transfers[i].source_blockchain = ETHEREUM
        /\ outgoing_transfers[i].destination_blockchain # ETHEREUM

\* C15: every transfer returned by read_outgoing_transfers_from_block or
\* read_outgoing_transfers_in_transaction has the client's blockchain as
\* source and another blockchain as destination; if an event of the batch
\* names the client's blockchain as destination, the operation ends with the
\* client error and returns no transfers, not the transfers of the other
\* events.
C15_SourceDiffersFromDestination ==
    /\ read.pc = "done"
       => /\ SourceIsNotDestination(read.result.outgoing_transfers)
          /\ (\E i \in DOMAIN read.event_logs :
                 read.event_logs[i].destination_blockchain = ETHEREUM)
             => /\ read.result.kind # FromBlockResponse
                /\ read.result.outgoing_transfers = <<>>
                /\ read.to_block_numbers = <<>>
                       => read.result.kind = FromBlockMessage
    /\ transaction_read.pc = "done"
       => /\ SourceIsNotDestination(transaction_read.result.outgoing_transfers)
          /\ (/\ transaction_read.reduced.raised = NoException
              /\ Hex(transaction_read.reduced.value.transactionHash)
                     = transaction_read.transaction_id
              /\ \E i \in DOMAIN transaction_read.reduced.value.logs :
                     transaction_read.reduced.value.logs[i]
                         .destination_blockchain = ETHEREUM)
             => /\ transaction_read.raised = AssertionError
                /\ transaction_read.result.kind = InTransactionMessage
                /\ transaction_read.result.outgoing_transfers = <<>>

\* the second event of a receipt names the client's blockchain as
\* destination, the first another one, and the read has failed
C15_Witness ==
    /\ transaction_read.pc = "done"
    /\ Len(transaction_read.event_logs) = 2
    /\ transaction_read.event_logs[1].destination_blockchain = "BNB_CHAIN"
    /\ transaction_read.event_logs[2].destination_blockchain = ETHEREUM
    /\ transaction_read.result.kind = InTransactionMessage

\* the TransferFrom events among the log entries of the receipt
TransferFromEntries(logs) ==
    {i \in DOMAIN logs : logs[i].event = "TransferFrom"}

C19_MatchOrInconsistency ==
    (transaction_read.pc = "done"
        /\ \E e \in Endpoints : transaction_read.responses[e].ok)
    => LET t == transaction_read
           answers == {t.responses[e].value :
                          e \in {x \in Endpoints : t.responses[x].ok}}
       IN  /\ t.reduced.raised = NoException <=> Cardinality(answers) = 1
           /\ t.reduced.raised = NoException => answers = {t.reduced.value}
           /\ Cardinality(answers) > 1
              => /\ t.reduced.raised = ResultsNotMatchingError
                 /\ t.raised = ResultsNotMatchingError
                 /\ t.result.kind = ResultsNotMatchingError
                 /\ t.result.outgoing_transfers = <<>>

\* two endpoints have the same answer, the third another one, and the read
\* has ended with the inconsistency error
C19_Witness ==
    /\ transaction_read.pc = "done"
    /\ \A e \in Endpoints : transaction_read.responses[e].ok
    /\ transaction_read.responses["endpoint_1"]
           = transaction_read.responses["endpoint_2"]
    /\ transaction_read.responses["endpoint_1"]
           # transaction_read.responses["endpoint_3"]
    /\ transaction_read.result.kind = ResultsNotMatchingError

\* C20: when read_outgoing_transfers_from_block fails with a failure that is
\* no node inconsistency, in the first chunk or in a later one, the client
\* error carries as from_block_number the value the caller passed.
C20_ErrorCarriesArgument ==
    (read.pc = "done" /\ read.result.kind = FromBlockMessage)
    => read.result.from_block_number = read.argument

C17_NonceStepsNotInterleaved ==
    /\ \A w \in Workers : call[w].raised # AssertionError
    /\ \A v, w \in Workers :
           (/\ call[v].pc = "submit"
            /\ call[w].pc = "submit"
            /\ call[v].request.internal_transfer_id
                   = call[w].request.internal_transfer_id)
           => call[v].nonce = call[w].nonce

\* the number of blocks of a fetched chunk, both end blocks counted
ChunkSize(chunk) == chunk[2] - chunk[1] + 1

\* C21: the chunks fetched by read_outgoing_transfers_from_block are of
\* fixed size: every chunk but the last covers the same number of blocks,
\* and no chunk covers more blocks than outgoing_transfers_number_blocks.
C21_ChunksOfFixedSize ==
    LET f == read.fetched
    IN  /\ \A i \in DOMAIN f : ChunkSize(f[i]) <= number_blocks
        /\ \A i, j \in 1..(Len(f) - 1) : ChunkSize(f[i]) = ChunkSize(f[j])

\* C22: the nonce stored for a transfer id is cleared only by a call for
\* that id whose submission was rejected as nonce too low or underpriced,
\* and that rejection is how the call ends; a stored nonce is never replaced
\* by another value, and a call for one id leaves the nonces of the other
\* ids as they are.
C22_ResetOnlyOnOwnRejection ==
    [][\A t \in Transfers :
          transfer_nonce'[t] # transfer_nonce[t]
          => \E w \in Workers :
                 /\ TransferOf(w) = t
                 /\ call'[w] # call[w]
                 /\ \A v \in Workers \ {w} : call'[v] = call[v]
                 /\ \A u \in Transfers \ {t} :
                        transfer_nonce'[u] = transfer_nonce[u]
                 /\ IF transfer_nonce'[t] = None
                    THEN /\ call[w].pc = "reset_nonce"
                         /\ call[w].raised \in Rejections
                         /\ call'[w].pc = "done"
                         /\ call'[w].raised = call[w].raised
                    ELSE /\ call[w].pc = "update_nonce"
                         /\ transfer_nonce[t] = None]_vars

\* a call has ended with its nonce cleared after an underpriced rejection,
\* and the nonce of the other transfer is still stored
C22_Witness ==
    \E w \in Workers :
        /\ call[w].pc = "done"
        /\ call[w].raised = TransactionUnderpricedError
        /\ transfer_nonce[TransferOf(w)] = None
        /\ \E u \in Transfers \ {TransferOf(w)} : transfer_nonce[u] # None

\* C23: the transaction count a call obtains is one that a node reports and
\* is not lower than the count of any node; when no nonce is stored for the
\* transfer id, that count is the nonce persisted, and the nonce persisted
\* is the one used for the submission.
C23_NonceIsMaximumCount ==
    [][\A w \in Workers :
          /\ (call[w].pc = "get_count" /\ call'[w].pc = "update_nonce")
             => /\ \E n \in Nodes :
                       call'[w].transaction_count = node_tx_count[n]
                /\ \A n \in Nodes :
                       call'[w].transaction_count >= node_tx_count[n]
          /\ (/\ call[w].pc = "update_nonce"
              /\ call'[w].pc = "read_nonce"
              /\ transfer_nonce[TransferOf(w)] = None)
             => transfer_nonce'[TransferOf(w)] = call[w].transaction_count
          /\ (call[w].pc = "read_nonce" /\ call'[w].pc = "submit")
             => /\ call'[w].nonce = transfer_nonce[TransferOf(w)]
                /\ submitted_nonces[TransferOf(w)] = {}
                   => call'[w].nonce = call[w].transaction_count]_vars

\* a first submission is about to use the higher of the two different
\* counts the nodes report
C23_Witness ==
    \E w \in Workers :
        /\ call[w].pc = "submit"
        /\ submitted_nonces[TransferOf(w)] = {}
        /\ node_tx_count["node_a"] < node_tx_count["node_b"]
        /\ call[w].nonce = node_tx_count["node_b"]
        /\ transfer_nonce[TransferOf(w)] = call[w].nonce

\* C24: for a from_block_number that is not beyond the latest block number
\* and a block span of at least 1, the upper end of every chunk is not below
\* its lower end, so the assertion in the chunk loop never fails; the loop
\* fetches at most one chunk per block of the range, its last chunk ends at
\* the latest block number, and the read comes to its end.
C24_AssertionHoldsAndLoopEnds ==
    /\ [](/\ (read.pc = "get_logs" /\ read.to_block_numbers # <<>>)
             => Head(read.to_block_numbers) >= read.from_block_number
          /\ read.raised = AssertionError => read.to_block_numbers = <<>>
          /\ read.pc = "get_logs"
             => Len(read.fetched) + Len(read.to_block_numbers)
                    <= read.latest_block_number - read.argument + 1
          /\ (read.pc = "get_logs" /\ read.to_block_numbers = <<>>)
             => /\ read.fetched # <<>>
                /\ read.fetched[Len(read.fetched)][2]
                       = read.latest_block_number)
    /\ (read.pc = "get_logs") ~> (read.pc = "done")

\* a read of at least two chunks has returned its response, the last chunk
\* ending at the latest block number
C24_Witness ==
    /\ read.pc = "done"
    /\ read.result.kind = FromBlockResponse
    /\ Len(read.fetched) >= 2
    /\ read.fetched[Len(read.fetched)][2] = read.latest_block_number
    /\ read.argument < read.latest_block_number

====
